---- MODULE Spec2Model ----
(***************************************************************************)
(* The NL2SQL request pipeline of hackprix: the LangGraph stage graph of   *)
(* NL2SQLConverter (plain) and NL2SQLRAGConverter (retrieval-augmented),   *)
(* its stage handlers, the SQL extractor and the database connections the  *)
(* executor opens.                                                         *)
(*                                                                         *)
(* Text is a sequence of tokens.  Where the code looks at characters (the  *)
(* text the extractor parses, the statement the executor inspects) a token *)
(* is one character: a letter, ";", "BT" for a backtick, "SP" for a blank, *)
(* "NL" for a line feed, "I_DOT" for U+0130, the capital I with a dot      *)
(* above, whose lower-case form is two characters.  Elsewhere a token      *)
(* stands for a run of characters that the code's substring tests treat as *)
(* a unit, such as a fixed phrase of a format string.                      *)
(***************************************************************************)
EXTENDS Integers, Sequences, FiniteSets, TLC

VARIABLES pc, st, variant, trace, calls, conn, dbOpen,
          response, parsed,
          coll, mpc, added

vars ==
    <<pc, st, variant, trace, calls, conn, dbOpen, response, parsed, coll, mpc, added>>

\* The variables of the extractor when it is looked at alone, and those of
\* the knowledge store.
pipelineVars == <<pc, st, variant, trace, calls, conn, dbOpen>>
parserVars == <<response, parsed>>
storeVars == <<coll, mpc, added>>

\* Threads that call query() on a converter (the front ends serve requests
\* from several threads).
Threads == {"t1", "t2"}

\* The database server accepts this many connections; a further connect fails.
MaxConns == 2

\* k of the pipeline's retrieval call.
K == 3

\* Python's None for the Optional[str] field error; Some(s) is a set error.
None == <<>>
Some(s) == <<s>>

----------------------------------------------------------------------------
\* Text helpers (str.strip, str.lower, str.upper, str.find, "in",
\* str.startswith, str.split, str.join) on token sequences.

IsSpace(c) == c \in {"SP", "NL"}

RECURSIVE LStrip(_)
LStrip(s) == IF s # <<>> /\ IsSpace(Head(s)) THEN LStrip(Tail(s)) ELSE s

RECURSIVE RStrip(_)
RStrip(s) ==
    IF s # <<>> /\ IsSpace(s[Len(s)]) THEN RStrip(SubSeq(s, 1, Len(s) - 1)) ELSE s

Strip(s) == RStrip(LStrip(s))

UpperLetters ==
    <<"A", "B", "C", "D", "E", "F", "G", "H", "I", "J", "K", "L", "M",
      "N", "O", "P", "Q", "R", "S", "T", "U", "V", "W", "X", "Y", "Z">>
LowerLetters ==
    <<"a", "b", "c", "d", "e", "f", "g", "h", "i", "j", "k", "l", "m",
      "n", "o", "p", "q", "r", "s", "t", "u", "v", "w", "x", "y", "z">>

\* The lower-case letter of each capital, and the capital of each
\* lower-case letter.
LowerOf ==
    [c \in {UpperLetters[i] : i \in 1..26} |->
        LowerLetters[CHOOSE i \in 1..26 : UpperLetters[i] = c]]
UpperOf ==
    [c \in {LowerLetters[i] : i \in 1..26} |->
        UpperLetters[CHOOSE i \in 1..26 : LowerLetters[i] = c]]

\* str.lower and str.upper of one token; the words are those of the
\* driver's messages.
LowerTok(c) ==
    CASE c \in DOMAIN LowerOf -> LowerOf[c]
      [] c = "COLUMN" -> "column"
      [] c = "NULL" -> "null"
      [] c = "PLATFORM" -> "platform"
      [] OTHER -> c

UpperTok(c) ==
    CASE c \in DOMAIN UpperOf -> UpperOf[c]
      [] c = "column" -> "COLUMN"
      [] c = "null" -> "NULL"
      [] c = "platform" -> "PLATFORM"
      [] OTHER -> c

\* str.lower: U+0130 becomes "i" followed by the combining dot above, so the
\* lower-case text can be longer than the text.
RECURSIVE Lower(_)
Lower(s) ==
    IF s = <<>> THEN <<>>
    ELSE (IF Head(s) = "I_DOT" THEN <<"i", "DOT_ABOVE">> ELSE <<LowerTok(Head(s))>>)
         \o Lower(Tail(s))

Upper(s) == [i \in 1..Len(s) |-> UpperTok(s[i])]

\* pat occurs in s at position i (1-based).
MatchAt(s, pat, i) ==
    /\ i >= 1
    /\ i + Len(pat) - 1 <= Len(s)
    /\ \A j \in 1..Len(pat) : s[i + j - 1] = pat[j]

\* s.find(pat, start): the least position >= start where pat occurs; 0 when
\* there is none (Python's -1).
Find(s, pat, start) ==
    LET hits == {i \in start..Len(s) : MatchAt(s, pat, i)}
    IN  IF hits = {} THEN 0 ELSE CHOOSE i \in hits : \A j \in hits : i <= j

Contains(s, pat) == Find(s, pat, 1) # 0

StartsWith(s, pat) == MatchAt(s, pat, 1)

EndsWith(s, pat) == MatchAt(s, pat, Len(s) - Len(pat) + 1)

\* s.split('\n')
RECURSIVE SplitLines(_)
SplitLines(s) ==
    LET i == Find(s, <<"NL">>, 1)
    IN  IF i = 0 THEN <<s>>
        ELSE <<SubSeq(s, 1, i - 1)>> \o SplitLines(SubSeq(s, i + 1, Len(s)))

\* sep.join(parts)
RECURSIVE Join(_, _)
Join(sep, parts) ==
    IF parts = <<>> THEN <<>>
    ELSE IF Len(parts) = 1 THEN parts[1]
    ELSE parts[1] \o sep \o Join(sep, Tail(parts))

----------------------------------------------------------------------------
\* SQLQueryParser.parse

sql_keywords ==
    << <<"S", "E", "L", "E", "C", "T">>, <<"I", "N", "S", "E", "R", "T">>,
       <<"U", "P", "D", "A", "T", "E">>, <<"D", "E", "L", "E", "T", "E">> >>

\* The fence of three backticks, and the fence tagged sql.
Fence == <<"BT", "BT", "BT">>
FenceSql == Fence \o <<"s", "q", "l">>

\* kw in s (a substring test: a word such as SELECTED contains SELECT).
HasKeyword(s, kw) == Contains(s, kw)

AnyKeyword(s) == \E k \in 1..Len(sql_keywords) : HasKeyword(s, sql_keywords[k])

\* The loop over lines without its break: capturing runs to the last line.
RECURSIVE CaptureLinesToEnd(_, _)
CaptureLinesToEnd(lines, capturing) ==
    IF lines = <<>> THEN <<>>
    ELSE LET line == Head(lines)
             cap  == capturing \/ AnyKeyword(Upper(line))
         IN  IF cap
             THEN <<line>> \o CaptureLinesToEnd(Tail(lines), TRUE)
             ELSE CaptureLinesToEnd(Tail(lines), FALSE)

\* The loop over lines: sql_lines after the loop.
RECURSIVE CaptureLines(_, _)
CaptureLines(lines, capturing) ==
    IF lines = <<>> THEN <<>>
    ELSE LET line == Head(lines)
             cap  == capturing \/ AnyKeyword(Upper(line))
         IN  IF cap
             THEN IF EndsWith(Strip(line), <<";">>)
                  THEN <<line>>
                  ELSE <<line>> \o CaptureLines(Tail(lines), TRUE)
             ELSE CaptureLines(Tail(lines), FALSE)

\* The keyword scan returning text_upper where it should return text.
ParseKeywordsUpperCased(text) ==
    IF AnyKeyword(Upper(text))
    THEN Strip(Join(<<"NL">>, CaptureLines(SplitLines(text), FALSE)))
    ELSE Strip(Upper(text))

\* The part of parse after the fence tests: the keyword scan, else the text.
ParseKeywords(text) ==
    IF AnyKeyword(Upper(text))
    THEN Strip(Join(<<"NL">>, CaptureLines(SplitLines(text), FALSE)))
    ELSE Strip(text)

\* The fenced content from position start up to the next fence, or the
\* keyword scan when the fence is never closed.
\* The fenced branches returning the block content as it stands.
ParseFencedUntrimmed(text, start) ==
    LET end == Find(text, Fence, start)
    IN  IF end # 0 THEN SubSeq(text, start, end - 1)
        ELSE ParseKeywords(text)

ParseFenced(text, start) ==
    LET end == Find(text, Fence, start)
    IN  IF end # 0 THEN Strip(SubSeq(text, start, end - 1))
        ELSE ParseKeywords(text)

\* parse.  The position of the tagged fence is found in text.lower() and
\* used in text.
Parse(raw) ==
    LET text == Strip(raw)
    IN  IF Contains(Lower(text), FenceSql)
        THEN ParseFenced(text, Find(Lower(text), FenceSql, 1) + 6)
        ELSE IF Contains(text, Fence)
        THEN ParseFenced(text, Find(text, Fence, 1) + 3)
        ELSE ParseKeywords(text)

----------------------------------------------------------------------------
\* What the external collaborators can hand back.

\* Questions passed to query().
Questions == {<<"How many students?">>, <<"Top", "SP", "rated?">>}

\* Replies of the model to the SQL prompt: a fenced SELECT, a bare UPDATE
\* and a reply of blanks only.
GenReplies ==
    { <<"H", "e", "r", "e", ":", "NL">> \o FenceSql
          \o <<"NL", "S", "E", "L", "E", "C", "T", "SP", "1", ";", "NL">> \o Fence,
      <<"U", "P", "D", "A", "T", "E", "SP", "t", ";">>,
      <<"SP", "NL">> }

\* Replies of the model to the answer prompt: prose, and blanks only.
AnswerReplies == { <<"SP", "There is one student.", "NL">>, <<"SP", "NL">> }

\* str(e) of a failed model call.
LLMErrors == { <<"connection refused">> }

\* str(e) of a failed database call.
DriverErrors == { <<"column", "SP", "x", "SP", "does not exist">>, <<"syntax error">> }

\* str(e) of a failed psycopg2.connect.
ConnectErrors == { <<"could not connect to server">> }

EmptyQueryError == <<"can't execute an empty query">>
TooManyConnections == <<"too many connections">>

\* Rows fetchall() can return, and cursor.rowcount of a mutating statement.
RowSets == { <<>>, <<[studentid |-> "s1"]>> }
RowCounts == { 0, 1 }

\* What the driver does with a statement: every call returns (step "ok",
\* with the rows or the row count it reports), or the call named by step
\* raises msg.
DriverOutcomes ==
    [step : {"ok"}, msg : {<<>>}, rows : RowSets, rowcount : RowCounts]
    \cup [step : {"execute", "fetch", "commit"}, msg : DriverErrors,
          rows : {<<>>}, rowcount : {0}]

\* The chunks similarity_search(question, k) can return.
Chunk1 == <<"Always use double quotes">>
Chunk2 == <<"Platform enum values">>

\* split_docs of initialize_knowledge_base: the chunks of the built-in
\* documents.
SeedChunks == <<Chunk1, Chunk2>>

\* The processes that construct a RAGManager on the persisted directory.
Managers == {"m1", "m2"}

\* Contents handed to add_knowledge, as the chunks the splitter makes of
\* them: a short note is one chunk, a long one two.
Contents == { <<<<"note A">>>>, <<<<"note B, part 1">>, <<"note B, part 2">>>> }

\* add_knowledge is called while the collection holds fewer than this many
\* chunks beyond the seed.
MaxAdded == 3

\* str(e) of a failed embedding call.
EmbeddingErrors == { <<"embedding service unavailable">> }

\* What add_knowledge returns: the success text with the number of chunks,
\* or the failure text with str(e); NotAdded before any call.
NotAdded == [ok |-> FALSE, n |-> 0, msg |-> <<>>]
AddedText(n) == [ok |-> TRUE, n |-> n, msg |-> <<"Added", "knowledge chunks to RAG system">>]
AddFailedText(e) == [ok |-> FALSE, n |-> 0, msg |-> <<"Failed to add knowledge: ">> \o e]
SearchHits(k) == { d \in { <<Chunk1, Chunk2>> } : Len(d) <= k }

\* str(e) of a failed similarity_search, and of a print to a closed console.
SearchErrors == { <<"index unavailable">> }
ConsoleErrors == { <<"[Errno 32] Broken pipe">> }

\* What a retrieval meets: similarity_search returns docs (ok) or raises
\* msg; console is None when the print in get_relevant_context's handler
\* returns, and Some(str(e)) when it raises.
Searches ==
    [ok : {TRUE}, docs : SearchHits(K), msg : {<<>>}, console : {None}]
    \cup [ok : {FALSE}, docs : {<<>>}, msg : SearchErrors, console : {None}]

----------------------------------------------------------------------------
\* The pipeline state (NL2SQLState / NL2SQLRAGState) and the stage handlers.

\* query(): initial_state.  The plain variant's state has no context fields;
\* they stay empty there, as result.get's defaults are.
InitialState(question) ==
    [ question     |-> question,
      sql_query    |-> <<>>,
      query_result |-> <<>>,
      final_answer |-> <<>>,
      error        |-> None,
      context_docs |-> <<>>,
      rag_context  |-> <<>> ]

\* Python truthiness of an Optional[str].
Truthy(e) == e # None /\ e[1] # <<>>

\* get_relevant_context without its try/except: the index failure propagates.
GetRelevantContextRaises(search) ==
    IF search.ok
    THEN [raised |-> FALSE, docs |-> search.docs,
          ctx |-> Join(<<"NL", "NL">>, search.docs), msg |-> <<>>]
    ELSE [raised |-> TRUE, docs |-> <<>>, ctx |-> <<>>, msg |-> search.msg]

\* get_relevant_context losing the first document the search returned.
GetRelevantContextSkipsFirst(search) ==
    IF search.ok /\ search.docs # <<>>
    THEN [raised |-> FALSE, docs |-> Tail(search.docs),
          ctx |-> Join(<<"NL", "NL">>, Tail(search.docs)), msg |-> <<>>]
    ELSE [raised |-> FALSE, docs |-> <<>>, ctx |-> <<>>, msg |-> <<>>]

\* RAGManager.get_relevant_context.  search is what the call meets (see
\* Searches).  The handler prints the failure before it returns; an
\* exception raised by that print leaves the method.
GetRelevantContext(search) ==
    IF search.ok
    THEN [raised |-> FALSE, docs |-> search.docs,
          ctx |-> Join(<<"NL", "NL">>, search.docs), msg |-> <<>>]
    ELSE IF search.console = None
    THEN [raised |-> FALSE, docs |-> <<>>, ctx |-> <<>>, msg |-> <<>>]
    ELSE [raised |-> TRUE, docs |-> <<>>, ctx |-> <<>>, msg |-> search.console[1]]

\* NL2SQLRAGConverter.retrieve_context
RetrieveContext(state, search) ==
    LET r == GetRelevantContext(search)
    IN  IF ~r.raised
        THEN [state EXCEPT !.context_docs = r.docs, !.rag_context = r.ctx]
        ELSE [state EXCEPT !.context_docs = <<>>, !.rag_context = <<>>,
                           !.error = Some(<<"RAG context retrieval failed: ">> \o r.msg)]

\* generate_sql_query answering with a state built anew from the question.
GenerateSqlQueryFresh(state, llm) ==
    IF llm.ok
    THEN [InitialState(state.question) EXCEPT !.sql_query = Parse(llm.text)]
    ELSE [InitialState(state.question) EXCEPT
              !.error = Some(<<"Failed to generate SQL query: ">> \o llm.text)]

\* generate_sql_query that gives up when no context was retrieved.
GenerateSqlQueryRequiresContext(state, llm) ==
    IF llm.ok /\ state.rag_context # <<>>
    THEN [state EXCEPT !.sql_query = Parse(llm.text)]
    ELSE [state EXCEPT !.error = Some(<<"Failed to generate SQL query: ">> \o llm.text)]

\* generate_sql_query.  llm is the outcome of llm.invoke: [ok, text], text
\* being the reply or str(e).
GenerateSqlQuery(state, llm) ==
    IF llm.ok
    THEN [state EXCEPT !.sql_query = Parse(llm.text)]
    ELSE [state EXCEPT !.error = Some(<<"Failed to generate SQL query: ">> \o llm.text)]

\* execute_sql_query when psycopg2.connect raises.
ExecuteConnectFailed(state, msg) ==
    [state EXCEPT !.error = Some(<<"SQL execution error: ">> \o msg)]

IsSelect(sql) == StartsWith(Upper(Strip(sql)), <<"S", "E", "L", "E", "C", "T">>)

\* The database calls a statement goes through, given what the driver does:
\* db = [step, msg, rows, rowcount]; step names the call that raises, "ok"
\* when none does.  An empty statement is refused by cursor.execute.
FailingCall(sql, db) ==
    IF sql = <<>> THEN "execute"
    ELSE IF db.step = "execute" THEN "execute"
    ELSE IF IsSelect(sql) /\ db.step = "fetch" THEN "fetch"
    ELSE IF ~IsSelect(sql) /\ db.step = "commit" THEN "commit"
    ELSE "ok"

\* str(e) of the exception the failing call raises.
DriverMessage(sql, db) == IF sql = <<>> THEN EmptyQueryError ELSE db.msg

\* execute_sql_query whose except clause records a fixed text instead of
\* str(e).
ExecuteStatementFixedText(state, db) ==
    LET sql  == state.sql_query
        fail == FailingCall(sql, db)
    IN  IF fail # "ok"
        THEN [ state     |-> [state EXCEPT !.error = Some(<<"SQL execution error">>)],
               closed    |-> FALSE,
               committed |-> FALSE ]
        ELSE IF IsSelect(sql)
        THEN [ state     |-> [state EXCEPT !.query_result = db.rows],
               closed    |-> TRUE,
               committed |-> FALSE ]
        ELSE [ state     |-> [state EXCEPT !.query_result = <<[affected_rows |-> db.rowcount]>>],
               closed    |-> TRUE,
               committed |-> TRUE ]

\* execute_sql_query that reports a SELECT without rows as an error.
ExecuteStatementNoRowsIsError(state, db) ==
    LET sql  == state.sql_query
        fail == FailingCall(sql, db)
        msg  == DriverMessage(sql, db)
    IN  IF fail # "ok"
        THEN [ state     |-> [state EXCEPT !.error = Some(<<"SQL execution error: ">> \o msg)],
               closed    |-> FALSE,
               committed |-> FALSE ]
        ELSE IF IsSelect(sql)
        THEN [ state     |-> IF db.rows = <<>>
                             THEN [state EXCEPT !.error = Some(<<"No rows found">>)]
                             ELSE [state EXCEPT !.query_result = db.rows],
               closed    |-> TRUE,
               committed |-> FALSE ]
        ELSE [ state     |-> [state EXCEPT !.query_result = <<[affected_rows |-> db.rowcount]>>],
               closed    |-> TRUE,
               committed |-> TRUE ]

\* execute_sql_query that closes the connection of a mutating statement
\* without conn.commit().
ExecuteStatementNoCommit(state, db) ==
    LET sql  == state.sql_query
        fail == FailingCall(sql, db)
        msg  == DriverMessage(sql, db)
    IN  IF fail # "ok"
        THEN [ state     |-> [state EXCEPT !.error = Some(<<"SQL execution error: ">> \o msg)],
               closed    |-> FALSE,
               committed |-> FALSE ]
        ELSE IF IsSelect(sql)
        THEN [ state     |-> [state EXCEPT !.query_result = db.rows],
               closed    |-> TRUE,
               committed |-> FALSE ]
        ELSE [ state     |-> [state EXCEPT !.query_result = <<[affected_rows |-> db.rowcount]>>],
               closed    |-> TRUE,
               committed |-> FALSE ]

\* execute_sql_query that commits after every statement, a SELECT too.
ExecuteStatementAlwaysCommits(state, db) ==
    LET sql  == state.sql_query
        fail == FailingCall(sql, db)
        msg  == DriverMessage(sql, db)
    IN  IF fail # "ok"
        THEN [ state     |-> [state EXCEPT !.error = Some(<<"SQL execution error: ">> \o msg)],
               closed    |-> FALSE,
               committed |-> FALSE ]
        ELSE IF IsSelect(sql)
        THEN [ state     |-> [state EXCEPT !.query_result = db.rows],
               closed    |-> TRUE,
               committed |-> TRUE ]
        ELSE [ state     |-> [state EXCEPT !.query_result = <<[affected_rows |-> db.rowcount]>>],
               closed    |-> TRUE,
               committed |-> TRUE ]

\* execute_sql_query from cursor.execute on, the connection being open:
\* the new state, whether conn.close() was reached and whether
\* conn.commit() returned.
ExecuteStatement(state, db) ==
    LET sql  == state.sql_query
        fail == FailingCall(sql, db)
        msg  == DriverMessage(sql, db)
    IN  IF fail # "ok"
        THEN [ state     |-> [state EXCEPT !.error = Some(<<"SQL execution error: ">> \o msg)],
               closed    |-> FALSE,
               committed |-> FALSE ]
        ELSE IF IsSelect(sql)
        THEN [ state     |-> [state EXCEPT !.query_result = db.rows],
               closed    |-> TRUE,
               committed |-> FALSE ]
        ELSE [ state     |-> [state EXCEPT !.query_result = <<[affected_rows |-> db.rowcount]>>],
               closed    |-> TRUE,
               committed |-> TRUE ]

\* should_handle_error with its two labels swapped.
ShouldHandleErrorSwapped(state) == IF Truthy(state.error) THEN "success" ELSE "error"

\* should_handle_error
ShouldHandleError(state) == IF Truthy(state.error) THEN "error" ELSE "success"

\* state.get("error", "Unknown error occurred") inside the f-string: the key
\* is always present, so None prints as "None".
ErrorMsg(state) == IF state.error = None THEN <<"None">> ELSE state.error[1]

\* context_hint looking for the words in the error text as it is spelt.
ContextHintCaseSensitive(state) ==
    LET msg == ErrorMsg(state)
    IN  IF state.rag_context = <<>> THEN <<>>
        ELSE <<"NL", "NL", "Based on the documentation, here are some suggestions:", "NL">>
             \o (IF Contains(msg, <<"column">>)
                 THEN <<"- Check column names and use double quotes", "NL">> ELSE <<>>)
             \o (IF Contains(msg, <<"enum">>) \/ Contains(msg, <<"platform">>)
                 THEN <<"- For platform, use: 'LEETCODE', 'CODEFORCES', 'CODECHEF'", "NL">>
                 ELSE <<>>)
             \o (IF Contains(msg, <<"null">>)
                 THEN <<"- Consider handling NULL values in your query", "NL">> ELSE <<>>)

\* NL2SQLRAGConverter.handle_error: context_hint
ContextHint(state) ==
    LET msg == Lower(ErrorMsg(state))
    IN  IF state.rag_context = <<>> THEN <<>>
        ELSE <<"NL", "NL", "Based on the documentation, here are some suggestions:", "NL">>
             \o (IF Contains(msg, <<"column">>)
                 THEN <<"- Check column names and use double quotes", "NL">> ELSE <<>>)
             \o (IF Contains(msg, <<"enum">>) \/ Contains(msg, <<"platform">>)
                 THEN <<"- For platform, use: 'LEETCODE', 'CODEFORCES', 'CODECHEF'", "NL">>
                 ELSE <<>>)
             \o (IF Contains(msg, <<"null">>)
                 THEN <<"- Consider handling NULL values in your query", "NL">> ELSE <<>>)

ErrorHead == <<"NL", "SP", "I encountered an error while processing your question: ">>
ErrorTail ==
    <<"NL", "SP", "NL", "SP", "Please try rephrasing your question or check if:",
      "NL", "SP", "Example questions you can ask:", "NL", "SP">>

\* handle_error with a fixed explanation that leaves the message out.
HandleErrorOmitsMessage(state, v) ==
    [state EXCEPT !.final_answer = ErrorHead \o ErrorTail]

\* handle_error that marks the error as handled by clearing it.
HandleErrorClearsError(state, v) ==
    [state EXCEPT !.final_answer = ErrorHead \o ErrorMsg(state) \o ErrorTail,
                  !.error = None]

\* The same two texts in src/app.py, which puts a symbol in front of the
\* first line and of the examples: U+274C ("CROSS_MARK") and U+1F4A1
\* ("LIGHT_BULB").
ErrorHeadMarked ==
    <<"NL", "SP", "CROSS_MARK", "SP",
      "I encountered an error while processing your question: ">>
ErrorTailMarked ==
    <<"NL", "SP", "NL", "SP", "Please try rephrasing your question or check if:",
      "NL", "SP", "LIGHT_BULB", "SP", "Example questions you can ask:", "NL", "SP">>

\* handle_error; v is the pipeline it belongs to: "rag" (nl2sql_rag.py),
\* "plain" (model/run.py), "gradio" (model/app.py) or "streamlit" (app.py).
HandleError(state, v) ==
    [state EXCEPT !.final_answer =
        IF v = "rag"
        THEN ErrorHead \o ErrorMsg(state) \o <<"NL", "SP">> \o ContextHint(state) \o ErrorTail
        ELSE IF v = "streamlit"
        THEN ErrorHeadMarked \o ErrorMsg(state) \o ErrorTailMarked
        ELSE ErrorHead \o ErrorMsg(state) \o ErrorTail]

DegradedHead == <<"Generated results but failed to create natural language response: ">>

\* generate_natural_answer that records a failed model call as a pipeline
\* error, as the other stages do.
GenerateNaturalAnswerRecordsError(state, llm) ==
    IF llm.ok
    THEN [state EXCEPT !.final_answer = Strip(llm.text)]
    ELSE [state EXCEPT !.error = Some(DegradedHead \o llm.text)]

\* generate_natural_answer
GenerateNaturalAnswer(state, llm) ==
    IF llm.ok
    THEN [state EXCEPT !.final_answer = Strip(llm.text)]
    ELSE [state EXCEPT !.final_answer = DegradedHead \o llm.text]

\* The dictionary query() returns.
QueryReturn(state) ==
    [ question     |-> state.question,
      sql_query    |-> state.sql_query,
      results      |-> state.query_result,
      answer       |-> state.final_answer,
      error        |-> state.error,
      context_docs |-> state.context_docs,
      rag_context  |-> state.rag_context ]

----------------------------------------------------------------------------
\* create_graph: the entry point and the edges.

Variants == {"plain", "rag"}
Stages == {"retrieve_context", "generate_sql", "execute_query", "generate_answer",
           "handle_error"}
END == "done"

\* An entry point that skips retrieval.
EntryPointSkipsRetrieval(v) == "generate_sql"

EntryPoint(v) == IF v = "rag" THEN "retrieve_context" ELSE "generate_sql"

\* The edges with a retry edge from handle_error back to generate_sql.
EdgeWithRetry(stage, state) ==
    CASE stage = "retrieve_context" -> "generate_sql"
      [] stage = "generate_sql" -> "execute_query"
      [] stage = "execute_query" ->
            IF Truthy(state.error) THEN "handle_error" ELSE "generate_answer"
      [] stage = "generate_answer" -> "done"
      [] stage = "handle_error" -> "generate_sql"

\* The stage that follows stage, given the state stage returned.
Edge(stage, state) ==
    CASE stage = "retrieve_context" -> "generate_sql"
      [] stage = "generate_sql" -> "execute_query"
      [] stage = "execute_query" ->
            IF ShouldHandleError(state) = "error" THEN "handle_error" ELSE "generate_answer"
      [] stage = "generate_answer" -> END
      [] stage = "handle_error" -> END

----------------------------------------------------------------------------
\* The running system: threads calling query(), and the database server's
\* connections.
\*   pc[t]      where thread t is: "idle", the stage it is about to run,
\*              "exec_connected" (inside execute_sql_query, connection
\*              open), or "done" (graph.invoke has returned)
\*   st[t]      the pipeline state of t's run
\*   variant[t] the converter t's run is on
\*   trace[t]   the stages t's run has started, in order
\*   calls[t]   how the external calls of t's run ended, and what the
\*              database driver did in it: the message it raised, the rows
\*              fetchall() returned, cursor.rowcount as read, and whether
\*              conn.commit() returned
\*   conn[t]    t holds an open connection in a local variable
\*   dbOpen     the connections the database server has open
\*   response   a text handed to SQLQueryParser.parse
\*   parsed     what parse returned for it; None before the call
\*   coll       the persisted collection sql_knowledge: None while it does
\*              not exist, else Some(its chunks, in insertion order)
\*   mpc[m]     where the RAGManager of process m is: "down", "creating"
\*              (get_collection found none), "crashed" (create_collection
\*              raised and with it the constructor), "opened"
\*              (collection fetched or created), "seeding" (count() was 0),
\*              or "ready"
\*   added[m]   what the last add_knowledge of process m returned

\* A state kept in one place on the converter, which every run writes.
GraphStateShared(all, t, new) == [u \in Threads |-> new]

\* graph.invoke(initial_state): the state of a run lives in its invocation;
\* what a stage returns replaces the state of the run it belongs to.
GraphState(all, t, new) == [all EXCEPT ![t] = new]

NoCalls ==
    [ retr |-> "none", gen |-> "none", exec |-> "none", ans |-> "none",
      dbmsg |-> <<>>, fetched |-> None, rowcount |-> None, committed |-> FALSE,
      hits |-> None ]

\* No request is running and no connection is open.
PipelineIdle ==
    /\ pc = [t \in Threads |-> "idle"]
    /\ st = [t \in Threads |-> InitialState(<<>>)]
    /\ variant = [t \in Threads |-> "plain"]
    /\ trace = [t \in Threads |-> <<>>]
    /\ calls = [t \in Threads |-> NoCalls]
    /\ conn = [t \in Threads |-> FALSE]
    /\ dbOpen = 0

\* parse has not been called on its own.
ParserIdle == response = <<>> /\ parsed = None

\* The knowledge base has been initialised: the collection holds the seed
\* chunks and every process has its RAGManager.
StoreReady ==
    /\ coll = Some(SeedChunks)
    /\ mpc = [m \in Managers |-> "ready"]
    /\ added = [m \in Managers |-> NotAdded]

Init == PipelineIdle /\ ParserIdle /\ StoreReady

Outcome(ok) == IF ok THEN "ok" ELSE "fail"

\* query(question) is called: initial_state is built and the graph entered.
QueryCall(t) ==
    /\ pc[t] = "idle"
    /\ \E q \in Questions, v \in Variants :
        /\ st' = GraphState(st, t, InitialState(q))
        /\ variant' = [variant EXCEPT ![t] = v]
        /\ pc' = [pc EXCEPT ![t] = EntryPoint(v)]
    /\ trace' = [trace EXCEPT ![t] = <<>>]
    /\ calls' = [calls EXCEPT ![t] = NoCalls]
    /\ UNCHANGED <<conn, dbOpen>>
    /\ UNCHANGED <<parserVars, storeVars>>

\* retrieve_context of run t, the retrieval meeting one of searches.
RetrieveContextWith(t, searches) ==
    /\ pc[t] = "retrieve_context"
    /\ \E search \in searches :
        LET new == RetrieveContext(st[t], search)
        IN  /\ st' = GraphState(st, t, new)
            /\ calls' = [calls EXCEPT
                  ![t].retr = Outcome(search.ok),
                  ![t].hits = IF search.ok THEN Some(search.docs) ELSE None]
            /\ pc' = [pc EXCEPT ![t] = Edge("retrieve_context", new)]
    /\ trace' = [trace EXCEPT ![t] = Append(@, "retrieve_context")]
    /\ UNCHANGED <<variant, conn, dbOpen>>
    /\ UNCHANGED <<parserVars, storeVars>>

RetrieveContextStage(t) == RetrieveContextWith(t, Searches)

\* generate_sql of run t, the model answering with one of replies or
\* raising.
GenerateSqlWith(t, replies) ==
    /\ pc[t] = "generate_sql"
    /\ \E llm \in [ok : {TRUE}, text : replies] \cup [ok : {FALSE}, text : LLMErrors] :
        LET new == GenerateSqlQuery(st[t], llm)
        IN  /\ st' = GraphState(st, t, new)
            /\ calls' = [calls EXCEPT ![t].gen = Outcome(llm.ok)]
            /\ pc' = [pc EXCEPT ![t] = Edge("generate_sql", new)]
    /\ trace' = [trace EXCEPT ![t] = Append(@, "generate_sql")]
    /\ UNCHANGED <<variant, conn, dbOpen>>
    /\ UNCHANGED <<parserVars, storeVars>>

GenerateSqlStage(t) == GenerateSqlWith(t, GenReplies)

\* execute_sql_query up to psycopg2.connect: the server refuses when it is
\* full, and the connect can fail for other reasons.
ExecuteConnect(t) ==
    /\ pc[t] = "execute_query"
    /\ trace' = [trace EXCEPT ![t] = Append(@, "execute_query")]
    /\ \/ /\ dbOpen < MaxConns
          /\ dbOpen' = dbOpen + 1
          /\ conn' = [conn EXCEPT ![t] = TRUE]
          /\ pc' = [pc EXCEPT ![t] = "exec_connected"]
          /\ UNCHANGED <<st, calls>>
       \/ /\ \E msg \in IF dbOpen < MaxConns THEN ConnectErrors ELSE {TooManyConnections} :
               LET new == ExecuteConnectFailed(st[t], msg)
               IN  /\ st' = GraphState(st, t, new)
                   /\ pc' = [pc EXCEPT ![t] = Edge("execute_query", new)]
                   /\ calls' = [calls EXCEPT ![t].exec = "fail", ![t].dbmsg = msg]
          /\ UNCHANGED <<conn, dbOpen>>
    /\ UNCHANGED variant
    /\ UNCHANGED <<parserVars, storeVars>>

\* execute_sql_query from cursor.execute to its return.  A path that does
\* not reach conn.close() drops the only reference to an open connection.
ExecuteRunWith(t, outcomes) ==
    /\ pc[t] = "exec_connected"
    /\ \E db \in outcomes :
        LET sql  == st[t].sql_query
            fail == FailingCall(sql, db)
            r    == ExecuteStatement(st[t], db)
        IN  /\ st' = GraphState(st, t, r.state)
            /\ calls' = [calls EXCEPT
                  ![t].exec = Outcome(r.closed),
                  ![t].dbmsg = IF fail # "ok" THEN DriverMessage(sql, db) ELSE <<>>,
                  ![t].fetched = IF fail = "ok" /\ IsSelect(sql) THEN Some(db.rows) ELSE None,
                  ![t].rowcount = IF fail = "ok" /\ ~IsSelect(sql)
                                  THEN Some(db.rowcount) ELSE None,
                  ![t].committed = r.committed]
            /\ dbOpen' = IF r.closed THEN dbOpen - 1 ELSE dbOpen
            /\ pc' = [pc EXCEPT ![t] = Edge("execute_query", r.state)]
    /\ conn' = [conn EXCEPT ![t] = FALSE]
    /\ UNCHANGED <<variant, trace>>
    /\ UNCHANGED <<parserVars, storeVars>>

ExecuteRun(t) == ExecuteRunWith(t, DriverOutcomes)

HandleErrorStage(t) ==
    /\ pc[t] = "handle_error"
    /\ LET new == HandleError(st[t], variant[t])
       IN  /\ st' = GraphState(st, t, new)
           /\ pc' = [pc EXCEPT ![t] = Edge("handle_error", new)]
    /\ trace' = [trace EXCEPT ![t] = Append(@, "handle_error")]
    /\ UNCHANGED <<variant, calls, conn, dbOpen>>
    /\ UNCHANGED <<parserVars, storeVars>>

GenerateAnswerStage(t) ==
    /\ pc[t] = "generate_answer"
    /\ \E llm \in [ok : {TRUE}, text : AnswerReplies] \cup [ok : {FALSE}, text : LLMErrors] :
        LET new == GenerateNaturalAnswer(st[t], llm)
        IN  /\ st' = GraphState(st, t, new)
            /\ calls' = [calls EXCEPT ![t].ans = Outcome(llm.ok)]
            /\ pc' = [pc EXCEPT ![t] = Edge("generate_answer", new)]
    /\ trace' = [trace EXCEPT ![t] = Append(@, "generate_answer")]
    /\ UNCHANGED <<variant, conn, dbOpen>>
    /\ UNCHANGED <<parserVars, storeVars>>

\* query() hands its dictionary to the caller; the run's state is dropped.
QueryReturns(t) ==
    /\ pc[t] = END
    /\ pc' = [pc EXCEPT ![t] = "idle"]
    /\ st' = GraphState(st, t, InitialState(<<>>))
    /\ variant' = [variant EXCEPT ![t] = "plain"]
    /\ trace' = [trace EXCEPT ![t] = <<>>]
    /\ calls' = [calls EXCEPT ![t] = NoCalls]
    /\ UNCHANGED <<conn, dbOpen>>
    /\ UNCHANGED <<parserVars, storeVars>>

\* Connections the server has open that no thread refers to any more.
Leaked == dbOpen - Cardinality({t \in Threads : conn[t]})

\* The interpreter collects an unreferenced connection object, whose
\* finalizer closes it; when this happens is up to the interpreter.
Finalize ==
    /\ Leaked > 0
    /\ dbOpen' = dbOpen - 1
    /\ UNCHANGED <<pc, st, variant, trace, calls, conn>>
    /\ UNCHANGED <<parserVars, storeVars>>

Next ==
    \/ \E t \in Threads : QueryCall(t)
    \/ \E t \in Threads : RetrieveContextStage(t)
    \/ \E t \in Threads : GenerateSqlStage(t)
    \/ \E t \in Threads : ExecuteConnect(t)
    \/ \E t \in Threads : ExecuteRun(t)
    \/ \E t \in Threads : HandleErrorStage(t)
    \/ \E t \in Threads : GenerateAnswerStage(t)
    \/ \E t \in Threads : QueryReturns(t)
    \/ Finalize

Spec == Init /\ [][Next]_vars

\* A thread inside graph.invoke runs its next stage: the graph runs the
\* stages of one request one after another, and every external call returns
\* or raises.
StageStep(t) ==
    \/ RetrieveContextStage(t)
    \/ GenerateSqlStage(t)
    \/ ExecuteConnect(t)
    \/ ExecuteRun(t)
    \/ HandleErrorStage(t)
    \/ GenerateAnswerStage(t)

\* The console front end (run.py, main) serves one question at a time: a
\* query() is called only when no other is running.
NoOtherRunning(t) == \A u \in Threads \ {t} : pc[u] = "idle"

SeqNext ==
    \/ \E t \in Threads : NoOtherRunning(t) /\ QueryCall(t)
    \/ \E t \in Threads : StageStep(t)
    \/ \E t \in Threads : QueryReturns(t)
    \/ Finalize

LiveSpec == Init /\ [][SeqNext]_vars /\ \A t \in Threads : WF_vars(StageStep(t))

----------------------------------------------------------------------------
\* SQLQueryParser.parse on its own: a text is handed to it and it returns.

\* The pieces the texts are made of: a fence, the word sql and a keyword in
\* mixed case, a semicolon, a blank, a line feed and U+0130.
Words ==
    { Fence, <<"S", "q", "l">>, <<"S", "e", "l", "e", "c", "t">>, <<";">>,
      <<"SP">>, <<"NL">>, <<"I_DOT">> }

\* The texts are made of at most this many pieces.
MaxWords == 5

RECURSIVE Flatten(_)
Flatten(ws) == IF ws = <<>> THEN <<>> ELSE Head(ws) \o Flatten(Tail(ws))

ParseInputs == { Flatten(ws) : ws \in UNION { [1..n -> Words] : n \in 0..MaxWords } }

ParseInit ==
    /\ PipelineIdle
    /\ StoreReady
    /\ response \in ParseInputs
    /\ parsed = None

\* parse(response) returns.
ParseText ==
    /\ parsed = None
    /\ parsed' = Some(Parse(response))
    /\ UNCHANGED <<response, pipelineVars, storeVars>>

ParseNext == ParseText

ParseSpec == ParseInit /\ [][ParseNext]_vars

----------------------------------------------------------------------------
\* One request at a time, as the console front end serves them (main: the
\* next question is read when query() has returned), in an environment with
\* more of what the model, the driver and the console can do.

\* The run that is followed.
Solo == "t1"

\* Further replies of the model to the SQL prompt: a block that starts with
\* a select and goes on with a DELETE, a WITH query, and a block that
\* starts with a comment.
MixedReply ==
      <<"BT", "BT", "BT", "s", "q", "l", "NL", "s", "e", "l", "e", "c", "t",
        "SP", "1", ";", "SP", "D", "E", "L", "E", "T", "E", "SP", "F", "R",
        "O", "M", "SP", "t", ";", "NL", "BT", "BT", "BT">>
WithReply ==
      <<"W", "I", "T", "H", "SP", "q", "SP", "A", "S", "SP", "(", "S", "E",
        "L", "E", "C", "T", "SP", "1", ")", "SP", "S", "E", "L", "E", "C",
        "T", "SP", "2", ";">>
CommentReply ==
      <<"BT", "BT", "BT", "s", "q", "l", "NL", "-", "-", "SP", "c", "NL",
        "S", "E", "L", "E", "C", "T", "SP", "1", ";", "NL", "BT", "BT", "BT">>
MoreGenReplies == GenReplies \cup {MixedReply, WithReply, CommentReply}

\* Further texts of a failed database call.
MoreDriverErrors ==
    DriverErrors \cup
    { <<"COLUMN", "SP", "x", "SP", "does not exist">>,
      <<"invalid input value for ", "enum">>,
      <<"PLATFORM", " is ambiguous">>,
      <<"NULL", " value in ", "column">> }

MoreDriverOutcomes ==
    [step : {"ok"}, msg : {<<>>}, rows : RowSets, rowcount : RowCounts]
    \cup [step : {"execute", "fetch", "commit"}, msg : MoreDriverErrors,
          rows : {<<>>}, rowcount : {0}]

\* Further things a retrieval meets: the search finds nothing, and the
\* search fails with the console closed, so that the handler's print raises.
MoreSearches ==
    Searches
    \cup [ok : {TRUE}, docs : {<<>>}, msg : {<<>>}, console : {None}]
    \cup [ok : {FALSE}, docs : {<<>>}, msg : SearchErrors,
          console : {Some(e) : e \in ConsoleErrors}]

OneRunNext ==
    \/ QueryCall(Solo)
    \/ RetrieveContextWith(Solo, MoreSearches)
    \/ GenerateSqlWith(Solo, MoreGenReplies)
    \/ ExecuteConnect(Solo)
    \/ ExecuteRunWith(Solo, MoreDriverOutcomes)
    \/ HandleErrorStage(Solo)
    \/ GenerateAnswerStage(Solo)
    \/ QueryReturns(Solo)
    \/ Finalize

OneRunSpec == Init /\ [][OneRunNext]_vars

----------------------------------------------------------------------------
\* Two pipelines given the same question and meeting the same outcomes of
\* the model and database calls: the run of Left, any of the four
\* pipelines, next to the run of Right, one of the three plain copies.  Each
\* has its own database server, so connections are not counted here.  Where
\* the two are routed to different stages neither goes on.

Left == "t1"
Right == "t2"

\* The pipelines without retrieval: model/run.py, model/app.py and app.py.
PlainCopies == {"plain", "gradio", "streamlit"}

\* query(question) on both.
PairCall ==
    /\ \A t \in Threads : pc[t] = "idle"
    /\ \E q \in Questions, v \in PlainCopies \cup {"rag"}, w \in PlainCopies :
        /\ st' = [t \in Threads |-> InitialState(q)]
        /\ variant' = [t \in Threads |-> IF t = Left THEN v ELSE w]
        /\ pc' = [t \in Threads |-> EntryPoint(IF t = Left THEN v ELSE w)]
    /\ trace' = [t \in Threads |-> <<>>]
    /\ calls' = [t \in Threads |-> NoCalls]
    /\ UNCHANGED <<conn, dbOpen>>
    /\ UNCHANGED <<parserVars, storeVars>>

\* retrieve_context, which only the retrieving pipeline has.
PairRetrieve == RetrieveContextWith(Left, MoreSearches)

\* generate_sql on both, the model giving both the same reply.
PairGenerate ==
    /\ \A t \in Threads : pc[t] = "generate_sql"
    /\ \E llm \in [ok : {TRUE}, text : GenReplies] \cup [ok : {FALSE}, text : LLMErrors] :
        /\ st' = [t \in Threads |-> GenerateSqlQuery(st[t], llm)]
        /\ pc' = [t \in Threads |-> Edge("generate_sql", GenerateSqlQuery(st[t], llm))]
        /\ calls' = [t \in Threads |-> [calls[t] EXCEPT !.gen = Outcome(llm.ok)]]
    /\ trace' = [t \in Threads |-> Append(trace[t], "generate_sql")]
    /\ UNCHANGED <<variant, conn, dbOpen>>
    /\ UNCHANGED <<parserVars, storeVars>>

\* execute_sql_query up to psycopg2.connect on both: both connect, or both
\* are refused with the same message.
PairConnect ==
    /\ \A t \in Threads : pc[t] = "execute_query"
    /\ trace' = [t \in Threads |-> Append(trace[t], "execute_query")]
    /\ \/ /\ conn' = [t \in Threads |-> TRUE]
          /\ pc' = [t \in Threads |-> "exec_connected"]
          /\ UNCHANGED <<st, calls>>
       \/ /\ \E msg \in ConnectErrors \cup {TooManyConnections} :
               /\ st' = [t \in Threads |-> ExecuteConnectFailed(st[t], msg)]
               /\ pc' = [t \in Threads |->
                            Edge("execute_query", ExecuteConnectFailed(st[t], msg))]
               /\ calls' = [t \in Threads |->
                               [calls[t] EXCEPT !.exec = "fail", !.dbmsg = msg]]
          /\ UNCHANGED conn
    /\ UNCHANGED <<variant, dbOpen>>
    /\ UNCHANGED <<parserVars, storeVars>>

\* execute_sql_query from cursor.execute on both, the driver doing the same
\* for both.
PairRun ==
    /\ \A t \in Threads : pc[t] = "exec_connected"
    /\ \E db \in DriverOutcomes :
        /\ st' = [t \in Threads |-> ExecuteStatement(st[t], db).state]
        /\ pc' = [t \in Threads |->
                     Edge("execute_query", ExecuteStatement(st[t], db).state)]
        /\ calls' = [t \in Threads |->
                        [calls[t] EXCEPT
                            !.exec = Outcome(ExecuteStatement(st[t], db).closed),
                            !.committed = ExecuteStatement(st[t], db).committed]]
    /\ conn' = [t \in Threads |-> FALSE]
    /\ UNCHANGED <<variant, trace, dbOpen>>
    /\ UNCHANGED <<parserVars, storeVars>>

\* handle_error on both, each pipeline its own.
PairHandle ==
    /\ \A t \in Threads : pc[t] = "handle_error"
    /\ st' = [t \in Threads |-> HandleError(st[t], variant[t])]
    /\ pc' = [t \in Threads |-> Edge("handle_error", HandleError(st[t], variant[t]))]
    /\ trace' = [t \in Threads |-> Append(trace[t], "handle_error")]
    /\ UNCHANGED <<variant, calls, conn, dbOpen>>
    /\ UNCHANGED <<parserVars, storeVars>>

\* generate_answer on both, the model giving both the same reply.
PairAnswer ==
    /\ \A t \in Threads : pc[t] = "generate_answer"
    /\ \E llm \in [ok : {TRUE}, text : AnswerReplies] \cup [ok : {FALSE}, text : LLMErrors] :
        /\ st' = [t \in Threads |-> GenerateNaturalAnswer(st[t], llm)]
        /\ pc' = [t \in Threads |->
                     Edge("generate_answer", GenerateNaturalAnswer(st[t], llm))]
        /\ calls' = [t \in Threads |-> [calls[t] EXCEPT !.ans = Outcome(llm.ok)]]
    /\ trace' = [t \in Threads |-> Append(trace[t], "generate_answer")]
    /\ UNCHANGED <<variant, conn, dbOpen>>
    /\ UNCHANGED <<parserVars, storeVars>>

\* Both query() calls return.
PairReturn ==
    /\ \A t \in Threads : pc[t] = END
    /\ pc' = [t \in Threads |-> "idle"]
    /\ st' = [t \in Threads |-> InitialState(<<>>)]
    /\ variant' = [t \in Threads |-> "plain"]
    /\ trace' = [t \in Threads |-> <<>>]
    /\ calls' = [t \in Threads |-> NoCalls]
    /\ UNCHANGED <<conn, dbOpen>>
    /\ UNCHANGED <<parserVars, storeVars>>

PairNext ==
    \/ PairCall
    \/ PairRetrieve
    \/ PairGenerate
    \/ PairConnect
    \/ PairRun
    \/ PairHandle
    \/ PairAnswer
    \/ PairReturn

PairSpec == Init /\ [][PairNext]_vars

----------------------------------------------------------------------------
\* The knowledge store: RAGManager.initialize_knowledge_base in the processes
\* that share the persisted collection, and add_knowledge.

\* The test that decides whether the seed chunks are inserted, always true.
ShouldSeedAlways(count) == TRUE

\* initialize_knowledge_base: collection.count() == 0
ShouldSeed(count) == count = 0

\* vector_store.add_documents(docs) on the collection.
AddDocuments(c, docs) == Some(c[1] \o docs)

\* No process has constructed its RAGManager and ./chroma_db is empty.
StoreInit ==
    /\ PipelineIdle
    /\ ParserIdle
    /\ coll = None
    /\ mpc = [m \in Managers |-> "down"]
    /\ added = [m \in Managers |-> NotAdded]

\* initialize_knowledge_base: get_collection("sql_knowledge"), which raises
\* when ./chroma_db has no such collection; the bare except then goes on to
\* create it.  A process whose constructor raised may be started again.
InitOpen(m) ==
    /\ mpc[m] \in {"down", "crashed"}
    /\ mpc' = [mpc EXCEPT ![m] = IF coll = None THEN "creating" ELSE "opened"]
    /\ UNCHANGED <<coll, added, pipelineVars, parserVars>>

\* initialize_knowledge_base: create_collection(name="sql_knowledge") in the
\* except branch.  It raises when the collection exists by now; nothing
\* catches that, and the constructor raises.
InitCreate(m) ==
    /\ mpc[m] = "creating"
    /\ IF coll = None
       THEN /\ coll' = Some(<<>>)
            /\ mpc' = [mpc EXCEPT ![m] = "opened"]
       ELSE /\ mpc' = [mpc EXCEPT ![m] = "crashed"]
            /\ UNCHANGED coll
    /\ UNCHANGED <<added, pipelineVars, parserVars>>

\* initialize_knowledge_base: the count test.
InitCount(m) ==
    /\ mpc[m] = "opened"
    /\ mpc' = [mpc EXCEPT ![m] = IF ShouldSeed(Len(coll[1])) THEN "seeding" ELSE "ready"]
    /\ UNCHANGED <<coll, added, pipelineVars, parserVars>>

\* initialize_knowledge_base: add_documents(split_docs).  It embeds the
\* chunks first; when that raises, nothing is inserted and the constructor
\* raises.
InitAdd(m) ==
    /\ mpc[m] = "seeding"
    /\ \/ /\ coll' = AddDocuments(coll, SeedChunks)
          /\ mpc' = [mpc EXCEPT ![m] = "ready"]
       \/ /\ mpc' = [mpc EXCEPT ![m] = "down"]
          /\ UNCHANGED coll
    /\ UNCHANGED <<added, pipelineVars, parserVars>>

\* NL2SQLRAGConverter.add_knowledge
AddKnowledge(m) ==
    /\ mpc[m] = "ready"
    /\ Len(coll[1]) < Len(SeedChunks) + MaxAdded
    /\ \E split_docs \in Contents :
          \/ /\ coll' = AddDocuments(coll, split_docs)
             /\ added' = [added EXCEPT ![m] = AddedText(Len(split_docs))]
          \/ /\ \E e \in EmbeddingErrors : added' = [added EXCEPT ![m] = AddFailedText(e)]
             /\ UNCHANGED coll
    /\ UNCHANGED <<mpc, pipelineVars, parserVars>>

\* The process of m exits; the collection stays on disk.
Exit(m) ==
    /\ mpc[m] = "ready"
    /\ mpc' = [mpc EXCEPT ![m] = "down"]
    /\ added' = [added EXCEPT ![m] = NotAdded]
    /\ UNCHANGED <<coll, pipelineVars, parserVars>>

StoreNext ==
    \/ \E m \in Managers : InitOpen(m)
    \/ \E m \in Managers : InitCreate(m)
    \/ \E m \in Managers : InitCount(m)
    \/ \E m \in Managers : InitAdd(m)
    \/ \E m \in Managers : AddKnowledge(m)
    \/ \E m \in Managers : Exit(m)

StoreSpec == StoreInit /\ [][StoreNext]_vars

\* No other process is inside initialize_knowledge_base.
NoOtherInitialising(m) ==
    \A u \in Managers \ {m} : mpc[u] \in {"down", "crashed", "ready"}

\* The initialisations run one after another.
StoreSeqNext ==
    \/ \E m \in Managers : NoOtherInitialising(m) /\ InitOpen(m)
    \/ \E m \in Managers : InitCreate(m)
    \/ \E m \in Managers : InitCount(m)
    \/ \E m \in Managers : InitAdd(m)
    \/ \E m \in Managers : AddKnowledge(m)
    \/ \E m \in Managers : Exit(m)

StoreSeqSpec == StoreInit /\ [][StoreSeqNext]_vars

----------------------------------------------------------------------------
\* Helpers of the properties.

Range(s) == {s[i] : i \in 1..Len(s)}
Last(s) == s[Len(s)]
Ran(t, stage) == stage \in Range(trace[t])
InExecute(t) == pc[t] \in {"execute_query", "exec_connected"}

----------------------------------------------------------------------------
\* C1: query() is total: the returned result has either a non-empty answer
\* and no error, or a non-empty error and the formatted error explanation as
\* answer; answer and error are never both empty, whatever the model replies.
C1_QueryTotal ==
    \A t \in Threads :
        pc[t] = END =>
            LET r == QueryReturn(st[t])
            IN  \/ r.answer # <<>> /\ r.error = None
                \/ /\ Truthy(r.error)
                   /\ r.answer = HandleError(st[t], variant[t]).final_answer
                   /\ r.answer # <<>>

\* C2 as stated: at pipeline completion exactly one of final_answer and
\* error is populated.
C2_ExactlyOne ==
    \A t \in Threads :
        pc[t] = END => ((st[t].final_answer # <<>>) # (st[t].error # None))

\* C2 as amended: at pipeline completion error is populated exactly when the
\* run went through handle_error, and then final_answer is populated too and
\* contains the error's message; on the success path error is unset, and
\* final_answer is empty only if the model's reply to the answer prompt was
\* blank.
C2_Completion ==
    \A t \in Threads :
        pc[t] = END =>
            /\ Truthy(st[t].error) <=> Last(trace[t]) = "handle_error"
            /\ st[t].error # None => Truthy(st[t].error)
            /\ Truthy(st[t].error) =>
                  /\ st[t].final_answer # <<>>
                  /\ Contains(st[t].final_answer, st[t].error[1])
            /\ st[t].error = None =>
                  /\ Last(trace[t]) = "generate_answer"
                  /\ st[t].final_answer = <<>> => calls[t].ans = "ok"

C2_Witness ==
    \E t \in Threads :
        /\ pc[t] = END
        /\ Last(trace[t]) = "handle_error"
        /\ st[t].final_answer # <<>>
        /\ st[t].error # None

\* C3: an error recorded by generate_sql short-circuits the happy path: no
\* execute_query (no connection opened) and no generate_answer after a
\* generation failure, and no generate_answer after an execution failure.
C3_ShortCircuit ==
    \A t \in Threads :
        /\ calls[t].gen = "fail" =>
              /\ ~Ran(t, "execute_query")
              /\ ~Ran(t, "generate_answer")
              /\ ~conn[t]
        /\ calls[t].exec = "fail" => ~Ran(t, "generate_answer")

\* C4: a failed model call in generate_sql is surfaced as the generation
\* error: from then on the state's error is that message, handle_error
\* formats it and query() returns it.
C4_GenerationErrorSurfaced ==
    \A t \in Threads :
        calls[t].gen = "fail" =>
            /\ \E m \in LLMErrors :
                  st[t].error = Some(<<"Failed to generate SQL query: ">> \o m)
            /\ pc[t] = END =>
                  Contains(st[t].final_answer, <<"Failed to generate SQL query: ">>)

\* C5: every connection execute_sql_query opened is closed when it returns:
\* the server never has more connections open than there are executions in
\* flight.
C5_ConnectionsReleased ==
    dbOpen <= Cardinality({t \in Threads : InExecute(t)})

\* C6: after execute_query the run goes to handle_error iff error is set and
\* to generate_answer iff it is not; exactly one of the two runs, and it is
\* followed directly by the terminal state.
C6_Routing ==
    \A t \in Threads :
        /\ pc[t] = "handle_error" => Truthy(st[t].error) /\ Last(trace[t]) = "execute_query"
        /\ pc[t] = "generate_answer" => ~Truthy(st[t].error) /\ Last(trace[t]) = "execute_query"
        /\ Ran(t, "handle_error") \/ Ran(t, "generate_answer") => pc[t] = END
        /\ pc[t] = END =>
              /\ Ran(t, "handle_error") # Ran(t, "generate_answer")
              /\ Ran(t, "handle_error") <=> Truthy(st[t].error)
              /\ Len(trace[t]) >= 2
              /\ trace[t][Len(trace[t]) - 1] = "execute_query"

C6_Witness ==
    \E t, u \in Threads :
        /\ pc[t] = END /\ Last(trace[t]) = "handle_error"
        /\ pc[u] = END /\ Last(trace[u]) = "generate_answer"

\* The stage sequences the graph allows for a variant.
Paths(v) ==
    LET head == IF v = "rag" THEN <<"retrieve_context">> ELSE <<>>
    IN  { head \o <<"generate_sql", "execute_query", x>> :
              x \in {"handle_error", "generate_answer"} }

\* C7: the stages run in the order [retrieve_context,] generate_sql,
\* execute_query, handle_error or generate_answer, done; retrieve_context
\* runs, first, only in the retrieval-augmented variant; a stage starts only
\* when the one before has returned.
C7_StageOrder ==
    \A t \in Threads :
        /\ \E p \in Paths(variant[t]) :
              /\ Len(trace[t]) <= Len(p)
              /\ trace[t] = SubSeq(p, 1, Len(trace[t]))
              /\ pc[t] \in Stages => Len(trace[t]) < Len(p) /\ pc[t] = p[Len(trace[t]) + 1]
              /\ pc[t] = "exec_connected" => Last(trace[t]) = "execute_query"
              /\ pc[t] = END => trace[t] = p
        /\ pc[t] = "idle" => trace[t] = <<>>

C7_Witness ==
    \E t, u \in Threads :
        /\ variant[t] = "rag" /\ pc[t] = END /\ Len(trace[t]) = 4
        /\ variant[u] = "plain" /\ pc[u] = END /\ Len(trace[u]) = 3

\* No stage occurs twice in the run of t.
NoRepeat(t) == \A i, j \in 1..Len(trace[t]) : trace[t][i] = trace[t][j] => i = j

\* C8: the graph has no cycle and no retry edge: each stage runs at most
\* once per run, and every run that was started reaches the terminal state.
C8_Terminates ==
    /\ [](\A t \in Threads : NoRepeat(t))
    /\ \A t \in Threads : (pc[t] # "idle") ~> (pc[t] = END)

C8_Witness ==
    \E t \in Threads : pc[t] = END /\ variant[t] = "rag" /\ Len(trace[t]) = 4

C10_AnswerFailureDegrades ==
    [][\A t \in Threads :
          (pc[t] = "generate_answer" /\ calls'[t].ans = "fail") =>
              /\ pc'[t] = END
              /\ st'[t].final_answer # <<>>
              /\ StartsWith(st'[t].final_answer, DegradedHead)
              /\ st[t].error = None /\ st'[t].error = None
              /\ st'[t].query_result = st[t].query_result
              /\ st'[t].sql_query = st[t].sql_query]_vars

C10_Witness ==
    \E t \in Threads :
        /\ calls[t].ans = "fail"
        /\ pc[t] = END
        /\ st[t].query_result # <<>>
        /\ StartsWith(st[t].final_answer, DegradedHead)

\* C11: a failure of any database call of execute_sql_query (connect,
\* execute, fetch, commit) is caught: the run goes on to handle_error, and
\* error is "SQL execution error: " followed by the driver's message as
\* raised.
C11_DbFailureCaught ==
    \A t \in Threads :
        calls[t].exec = "fail" =>
            /\ pc[t] \in {"handle_error", END}
            /\ calls[t].dbmsg # <<>>
            /\ st[t].error = Some(<<"SQL execution error: ">> \o calls[t].dbmsg)
            /\ Contains(st[t].error[1], calls[t].dbmsg)

C11_Witness ==
    \E t, u \in Threads :
        /\ calls[t].exec = "fail" /\ calls[t].dbmsg \in DriverErrors
        /\ pc[t] = END
        /\ calls[u].exec = "fail" /\ calls[u].dbmsg \in ConnectErrors
        /\ pc[u] = "handle_error"

C13_MutationCommitted ==
    \A t \in Threads :
        (calls[t].exec = "ok" /\ ~IsSelect(st[t].sql_query)) =>
            /\ calls[t].committed
            /\ calls[t].rowcount # None
            /\ st[t].query_result = <<[affected_rows |-> calls[t].rowcount[1]]>>
            /\ Len(st[t].query_result) = 1
            /\ DOMAIN st[t].query_result[1] = {"affected_rows"}
            /\ st[t].error = None

C13_Witness ==
    \E t, u \in Threads :
        /\ calls[t].exec = "ok" /\ ~IsSelect(st[t].sql_query)
        /\ calls[t].committed /\ calls[t].rowcount = Some(0)
        /\ calls[u].exec = "ok" /\ ~IsSelect(st[u].sql_query)
        /\ calls[u].committed /\ calls[u].rowcount = Some(1)

\* The tag sql, in any case, follows a fence at position i of text.
SqlFenceAt(text, i) ==
    /\ MatchAt(text, Fence, i)
    /\ i + 5 <= Len(text)
    /\ <<LowerTok(text[i + 3]), LowerTok(text[i + 4]), LowerTok(text[i + 5])>>
          = <<"s", "q", "l">>

\* The first fence of text tagged sql; 0 when there is none.
FirstSqlFence(text) ==
    LET hits == {i \in 1..Len(text) : SqlFenceAt(text, i)}
    IN  IF hits = {} THEN 0 ELSE CHOOSE i \in hits : \A j \in hits : i <= j

\* text has a fenced block whose opening fence is tagged sql.
HasSqlBlock(text) ==
    /\ FirstSqlFence(text) # 0
    /\ Find(text, Fence, FirstSqlFence(text) + 6) # 0

\* The content of that block: what lies between the tagged fence and the
\* next fence, trimmed.
SqlBlockContent(text) ==
    LET i == FirstSqlFence(text)
    IN  Strip(SubSeq(text, i + 6, Find(text, Fence, i + 6) - 1))

\* C14: for a text with a fenced block whose opening fence is tagged sql (in
\* any case), parse returns the content between that fence and the next
\* fence, trimmed, whatever surrounds the block.
C14_SqlFenceContent ==
    (parsed # None /\ HasSqlBlock(response)) => parsed[1] = SqlBlockContent(response)

\* The index of the first line with a DML keyword, 0 when there is none.
FirstKeywordLine(lines) ==
    LET hits == {i \in 1..Len(lines) : AnyKeyword(Upper(lines[i]))}
    IN  IF hits = {} THEN 0 ELSE CHOOSE i \in hits : \A j \in hits : i <= j

\* The index of the first line from line k on that ends in a semicolon, 0
\* when there is none.
FirstTerminatedLine(lines, k) ==
    LET hits == {i \in k..Len(lines) : EndsWith(Strip(lines[i]), <<";">>)}
    IN  IF hits = {} THEN 0 ELSE CHOOSE i \in hits : \A j \in hits : i <= j

\* text has no fence and has a statement: a DML keyword, and on its line or
\* a later one a semicolon at the end.
HasBareStatement(text) ==
    LET lines == SplitLines(text)
        k     == FirstKeywordLine(lines)
    IN  /\ ~Contains(text, Fence)
        /\ k # 0
        /\ FirstTerminatedLine(lines, k) # 0

\* The position in line of the first DML keyword.
KeywordPosition(line) ==
    LET hits == {i \in 1..Len(line) :
                    \E n \in 1..Len(sql_keywords) : MatchAt(Upper(line), sql_keywords[n], i)}
    IN  CHOOSE i \in hits : \A j \in hits : i <= j

\* The lines of the statement, the first one as a whole.
StatementLines(text) ==
    LET lines == SplitLines(text)
        k     == FirstKeywordLine(lines)
    IN  SubSeq(lines, k, FirstTerminatedLine(lines, k))

\* C15 as stated: for a text with no fence and a statement that starts with
\* a DML keyword and ends in a semicolon, parse returns the text from the
\* first DML keyword through the first following line that ends in a
\* semicolon: nothing before that keyword and nothing after that line.
C15_FromKeyword ==
    (parsed # None /\ HasBareStatement(response)) =>
        LET sl    == StatementLines(response)
            first == SubSeq(sl[1], KeywordPosition(sl[1]), Len(sl[1]))
        IN  parsed[1] = Strip(Join(<<"NL">>, <<first>> \o Tail(sl)))

\* C15 as amended: for such a text parse returns the lines from the first
\* line that contains a DML keyword, taken as a whole, through the first
\* line from there on that ends in a semicolon, joined and trimmed: what
\* precedes the keyword on its own line is kept, earlier and later lines
\* are not.
C15_FromKeywordLine ==
    (parsed # None /\ HasBareStatement(response)) =>
        parsed[1] = Strip(Join(<<"NL">>, StatementLines(response)))

\* A statement with prose before the keyword on its line, which is kept,
\* and a line after it, which is dropped.
C15_Witness ==
    /\ parsed # None
    /\ HasBareStatement(response)
    /\ KeywordPosition(StatementLines(response)[1]) > 1
    /\ parsed[1][1] = response[1]
    /\ Len(parsed[1]) < Len(Strip(response))

\* C16: parse returns for every text, and for a text with neither a fence
\* nor one of the DML keywords in any case it returns the text with leading
\* and trailing whitespace removed and otherwise unchanged.
C16_PlainTextTrimmed ==
    parsed # None =>
        /\ parsed[1] \in Seq({response[i] : i \in 1..Len(response)})
        /\ (~Contains(response, Fence) /\ ~AnyKeyword(Upper(response))) =>
              parsed[1] = Strip(response)

C16_Witness ==
    /\ parsed # None
    /\ ~Contains(response, Fence)
    /\ ~AnyKeyword(Upper(response))
    /\ parsed[1] # <<>>
    /\ parsed[1] # response

\* How often chunk c is in the collection.
Count(c) == Cardinality({i \in 1..Len(coll[1]) : coll[1][i] = c})

\* Process m is inside initialize_knowledge_base.
Initialising(m) == mpc[m] \in {"down", "crashed", "creating", "opened", "seeding"}

\* C17: with the initialisations run one after another, the collection
\* never holds a seed chunk twice and holds each exactly once as soon as an
\* initialisation has completed; the initialisation of an empty collection
\* inserts the seed chunks, that of a populated collection changes nothing.
C17_InitIdempotent ==
    /\ [](coll # None =>
            \A i \in 1..Len(SeedChunks) :
                /\ Count(SeedChunks[i]) <= 1
                /\ (\E m \in Managers : mpc[m] = "ready") => Count(SeedChunks[i]) = 1)
    /\ [][\A m \in Managers :
            (Initialising(m) /\ mpc'[m] # mpc[m]) =>
                /\ (coll # None /\ coll[1] # <<>>) => coll' = coll
                /\ (coll = None \/ coll[1] = <<>>) =>
                      (mpc'[m] = "ready" => coll' = Some(SeedChunks))]_vars

\* Both processes have initialised, one after the other, and a chunk has
\* been added since the first initialisation.
C17_Witness ==
    /\ \A m \in Managers : mpc[m] = "ready"
    /\ coll # None
    /\ Len(coll[1]) > Len(SeedChunks)
    /\ \A i \in 1..Len(SeedChunks) : Count(SeedChunks[i]) = 1

\* C19: runs in flight at the same time are independent: a step of one run
\* leaves the pipeline state of every other run, and so every field of the
\* result it will return, as it was.
C19_RunsIndependent ==
    [][\A t \in Threads :
          (pc[t] # "idle" /\ pc'[t] = pc[t]) =>
              /\ st'[t] = st[t]
              /\ QueryReturn(st'[t]) = QueryReturn(st[t])
              /\ variant'[t] = variant[t]]_vars

\* Two runs in flight with different questions, one past a failed execution
\* and one past a successful one.
C19_Witness ==
    \E t, u \in Threads :
        /\ pc[t] = "handle_error" /\ Truthy(st[t].error)
        /\ pc[u] = "generate_answer" /\ st[u].sql_query # <<>>
        /\ st[t].question # st[u].question

\* C20: when generation, execution or answer synthesis has failed, the
\* answer of the returned result is a non-empty text: after a failed
\* generation or execution it is the error explanation and contains the
\* message recorded in error, after a failed answer synthesis it is the
\* degraded message and contains the message of the failure.
C20_FailureExplained ==
    \A t \in Threads :
        pc[t] = END =>
            LET r == QueryReturn(st[t])
            IN  /\ (calls[t].gen = "fail" \/ calls[t].exec = "fail") =>
                      /\ r.answer # <<>>
                      /\ Truthy(r.error)
                      /\ StartsWith(r.answer, ErrorHead)
                      /\ Contains(r.answer, r.error[1])
                /\ calls[t].ans = "fail" =>
                      /\ r.answer # <<>>
                      /\ \E e \in LLMErrors : r.answer = DegradedHead \o e

C20_Witness ==
    \E t, u \in Threads :
        /\ pc[t] = END /\ calls[t].gen = "fail" /\ st[t].final_answer # <<>>
        /\ pc[u] = END /\ calls[u].ans = "fail" /\ st[u].final_answer # <<>>

\* Two runs of the retrieving variant that asked the same question of the
\* same collection and have both been through retrieve_context.
SameLookup(t, u) ==
    /\ variant[t] = "rag" /\ variant[u] = "rag"
    /\ Ran(t, "retrieve_context") /\ Ran(u, "retrieve_context")
    /\ st[t].question = st[u].question

Changed(a, b) == {f \in DOMAIN a : a[f] # b[f]}

\* What the stage a run is at may write.
Writes(stage) ==
    CASE stage = "retrieve_context" -> {"context_docs", "rag_context", "error"}
      [] stage = "generate_sql"     -> {"sql_query", "error"}
      [] stage \in {"execute_query", "exec_connected"} -> {"query_result", "error"}
      [] stage = "generate_answer"  -> {"final_answer"}
      [] stage = "handle_error"     -> {"final_answer"}
      [] OTHER                      -> {}

\* C23: every stage of a run returns the state it was given with only its
\* own fields written: the question never changes, generate_sql writes only
\* sql_query or error, execute_query only query_result or error,
\* generate_answer only final_answer, and handle_error only final_answer,
\* after which the graph ends without running any stage again.
C23_StageFrame ==
    [][\A t \in Threads :
          pc[t] \notin {"idle", END} =>
              /\ Changed(st[t], st'[t]) \subseteq Writes(pc[t])
              /\ pc[t] = "handle_error" /\ pc'[t] # pc[t] => pc'[t] = END]_vars

\* A retrieving run ended in handle_error with everything the earlier
\* stages wrote still in its state.
C23_Witness ==
    \E t \in Threads :
        /\ pc[t] = END /\ Ran(t, "handle_error") /\ Ran(t, "execute_query")
        /\ st[t].question # <<>>
        /\ st[t].context_docs # <<>>
        /\ st[t].sql_query # <<>>
        /\ Truthy(st[t].error)
        /\ st[t].final_answer # <<>>

\* text has a fenced block whose opening fence, the first fence of the
\* text, carries no language tag: a blank, a line end or the closing fence
\* itself follows it.
HasPlainBlock(text) ==
    LET f == Find(text, Fence, 1)
    IN  /\ f # 0
        /\ Find(text, Fence, f + 3) # 0
        /\ \/ IsSpace(text[f + 3])
           \/ Find(text, Fence, f + 3) = f + 3

\* The content of that block, trimmed.
PlainBlockContent(text) ==
    LET f == Find(text, Fence, 1)
    IN  Strip(SubSeq(text, f + 3, Find(text, Fence, f + 3) - 1))

\* C24: for a text with a complete fenced block without a language tag and
\* no complete block tagged sql, parse returns the trimmed content between
\* the first fence and the next one, also when a fence tagged sql is opened
\* and never closed.
C24_PlainFenceContent ==
    (parsed # None /\ HasPlainBlock(response) /\ ~HasSqlBlock(response))
        => parsed[1] = PlainBlockContent(response)

\* part occurs in text as a contiguous run of characters.
IsSubstring(part, text) == part = <<>> \/ Contains(text, part)

\* s has no white space at either end.
Trimmed(s) == s = <<>> \/ (~IsSpace(s[1]) /\ ~IsSpace(s[Len(s)]))

\* C30 as stated: parse is idempotent, and what it returns is trimmed and
\* occurs in its input as a substring.
C30_Idempotent ==
    parsed # None =>
        /\ Parse(parsed[1]) = parsed[1]
        /\ Trimmed(parsed[1])
        /\ IsSubstring(parsed[1], response)

\* C30: what parse returns has no white space at either end and occurs in
\* its input as a contiguous substring; for a text without a fence, parsing
\* the result again returns it unchanged.
C30_TrimmedSubstring ==
    parsed # None =>
        /\ Trimmed(parsed[1])
        /\ IsSubstring(parsed[1], response)
        /\ ~Contains(response, Fence) => Parse(parsed[1]) = parsed[1]

\* parse cut a statement out of a text without a fence, dropping what stood
\* on the lines in front of it, and returns the statement again when given it.
C30_Witness ==
    /\ parsed # None /\ parsed[1] # <<>>
    /\ ~Contains(response, Fence)
    /\ Len(parsed[1]) < Len(Strip(response))
    /\ Parse(parsed[1]) = parsed[1]

\* C29 as stated: however the initialisations of two processes on an empty
\* directory interleave, the collection holds no seed chunk twice and no
\* initialisation fails on the collection the other one created.
C29_SeededOnce ==
    /\ coll # None => \A i \in 1..Len(SeedChunks) : Count(SeedChunks[i]) <= 1
    /\ \A m \in Managers : mpc[m] # "crashed"

\* The error text has word in it, in any case of its letters.
Mentions(text, word) == \E i \in 1..Len(text) : LowerTok(text[i]) = word

\* The explanation has the suggestion line in it.
Suggests(answer, line) == \E i \in 1..Len(answer) : answer[i] = line

\* C25: in the retrieving variant the explanation of handle_error has the
\* suggestion to quote column names iff context was retrieved and the error
\* text mentions "column" in any case, the platform suggestion iff context
\* was retrieved and it mentions "enum" or "platform", and the NULL
\* suggestion iff context was retrieved and it mentions "null"; with an
\* empty context it has none of them.
C25_HintsFollowErrorText ==
    (pc[Solo] = END /\ variant[Solo] = "rag" /\ Ran(Solo, "handle_error")) =>
        LET msg     == st[Solo].error[1]
            answer  == st[Solo].final_answer
            context == st[Solo].rag_context # <<>>
        IN  /\ Suggests(answer, "- Check column names and use double quotes")
                <=> (context /\ Mentions(msg, "column"))
            /\ Suggests(answer, "- For platform, use: 'LEETCODE', 'CODEFORCES', 'CODECHEF'")
                <=> (context /\ (Mentions(msg, "enum") \/ Mentions(msg, "platform")))
            /\ Suggests(answer, "- Consider handling NULL values in your query")
                <=> (context /\ Mentions(msg, "null"))

\* A retrieving run with context failed on an error that names the column
\* in capitals, and the explanation suggests quoting column names.
C25_Witness ==
    /\ pc[Solo] = END /\ variant[Solo] = "rag" /\ Ran(Solo, "handle_error")
    /\ st[Solo].rag_context # <<>>
    /\ \E i \in 1..Len(st[Solo].error[1]) : st[Solo].error[1][i] = "COLUMN"
    /\ Suggests(st[Solo].final_answer, "- Check column names and use double quotes")
    /\ ~Suggests(st[Solo].final_answer, "- Consider handling NULL values in your query")

\* The statement, trimmed and in capitals, starts with SELECT.
StartsWithSelect(sql) ==
    LET u == Upper(Strip(sql))
    IN  Len(u) >= 6 /\ SubSeq(u, 1, 6) = <<"S", "E", "L", "E", "C", "T">>

\* C26: a statement the database executed is committed iff its trimmed,
\* upper-cased text does not start with SELECT.  One that starts with
\* SELECT is never committed, whatever else its text holds, and yields the
\* fetched rows; one that does not, a WITH query or a statement behind a
\* comment included, is committed and yields the single affected-rows row.
C26_CommitUnlessSelect ==
    LET sql == st[Solo].sql_query
    IN  /\ calls[Solo].committed => ~StartsWithSelect(sql)
        /\ calls[Solo].exec = "ok" =>
              IF StartsWithSelect(sql)
              THEN /\ ~calls[Solo].committed
                   /\ calls[Solo].fetched # None
                   /\ st[Solo].query_result = calls[Solo].fetched[1]
              ELSE /\ calls[Solo].committed
                   /\ calls[Solo].rowcount # None
                   /\ st[Solo].query_result =
                          <<[affected_rows |-> calls[Solo].rowcount[1]]>>

\* A statement that reads, but starts with a comment or with WITH, was
\* committed and yielded the affected-rows row.
C26_Witness ==
    /\ calls[Solo].exec = "ok"
    /\ ~StartsWithSelect(st[Solo].sql_query)
    /\ Contains(st[Solo].sql_query, <<"S", "E", "L", "E", "C", "T">>)
    /\ calls[Solo].committed
    /\ \E n \in RowCounts : st[Solo].query_result = <<[affected_rows |-> n]>>

\* A statement that starts with a select and goes on with a DELETE was
\* executed, not committed, and yielded the fetched rows.
MixedStatementNotCommitted ==
    /\ calls[Solo].exec = "ok"
    /\ StartsWithSelect(st[Solo].sql_query)
    /\ Contains(st[Solo].sql_query, <<"D", "E", "L", "E", "T", "E">>)
    /\ ~calls[Solo].committed

\* C27: in every result query() returns with error set, results is empty;
\* results is non-empty only in runs where execute_query succeeded, and in
\* those runs error is unset, in both variants and also in a run in which
\* retrieve_context recorded an error.
C27_ErrorMeansNoResults ==
    pc[Solo] = END =>
        LET r == QueryReturn(st[Solo])
        IN  /\ r.error # None => r.results = <<>>
            /\ r.results # <<>> => calls[Solo].exec = "ok" /\ r.error = None

\* The stages of a run other than retrieve_context, in their order.
WithoutRetrieval(stages) == SelectSeq(stages, LAMBDA x : x # "retrieve_context")

\* Two runs are at the same place, have been through the same stages apart
\* from retrieve_context, and agree on sql_query, query_result, error and
\* the routing after execute_query.
SameRun(a, b) ==
    /\ pc[a] = pc[b]
    /\ WithoutRetrieval(trace[a]) = WithoutRetrieval(trace[b])
    /\ st[a].question = st[b].question
    /\ st[a].sql_query = st[b].sql_query
    /\ st[a].query_result = st[b].query_result
    /\ st[a].error = st[b].error
    /\ ShouldHandleError(st[a]) = ShouldHandleError(st[b])

\* C28 as stated: for the same question and the same outcomes of the model
\* and database calls the retrieving run, retrieve_context and the context
\* fields left aside, goes through the same stages as a plain run and ends
\* with the same sql_query, query_result, error and routing; and two of the
\* three plain copies write the same state at every stage.
C28_Refines ==
    pc[Left] # "retrieve_context" =>
        /\ SameRun(Left, Right)
        /\ variant[Left] \in PlainCopies => st[Left] = st[Right]

\* The error retrieve_context recorded is the error of the run.
RetrievalErrorStands(t) ==
    /\ variant[t] = "rag" /\ Ran(t, "retrieve_context")
    /\ st[t].error # None
    /\ StartsWith(st[t].error[1], <<"RAG context retrieval failed: ">>)

\* C28: as above, with two exceptions.  While an error recorded by
\* retrieve_context stands, the retrieving run has that error and is routed
\* to handle_error, with the same sql_query and query_result as the plain
\* run.  And two plain copies write the same state at every stage except
\* that handle_error of app.py words its explanation with the two symbols:
\* their final_answer differs exactly when they have been through
\* handle_error and one of them is app.py.
C28_RefinesButWording ==
    pc[Left] # "retrieve_context" =>
        IF RetrievalErrorStands(Left)
        THEN /\ st[Left].sql_query = st[Right].sql_query
             /\ st[Left].query_result = st[Right].query_result
             /\ ShouldHandleError(st[Left]) = "error"
             /\ Ran(Left, "execute_query") /\ ~conn[Left] =>
                    pc[Left] \in {"handle_error", END}
        ELSE /\ SameRun(Left, Right)
             /\ variant[Left] \in PlainCopies =>
                   /\ [st[Left] EXCEPT !.final_answer = <<>>]
                         = [st[Right] EXCEPT !.final_answer = <<>>]
                   /\ st[Left].final_answer # st[Right].final_answer
                         <=> /\ Ran(Left, "handle_error")
                             /\ (variant[Left] = "streamlit")
                                   # (variant[Right] = "streamlit")

\* A retrieving run with context and a plain run ended side by side after
\* generate_answer with the same rows.
C28_Witness ==
    /\ pc[Left] = END /\ pc[Right] = END
    /\ variant[Left] = "rag" /\ st[Left].context_docs # <<>>
    /\ Ran(Left, "retrieve_context") /\ Ran(Left, "generate_answer")
    /\ st[Left].query_result # <<>>
    /\ st[Left].query_result = st[Right].query_result

====
